---- MODULE Spec2Model ----
(***************************************************************************)
(* The conversation memory of Backend/memory.py: the Supabase-backed chat  *)
(* history (SupabaseChatMessageHistory) with its in-process mirror         *)
(* local_messages, the in-process FallbackChatMessageHistory, the module   *)
(* global LOCAL_MESSAGES and the remote table chat_memory.                 *)
(*                                                                         *)
(* Every remote call (client.table(...)...execute()) either succeeds, with *)
(* its effect on the table, or raises, with no effect on the table; the    *)
(* outcome of each call is chosen nondeterministically.                    *)
(***************************************************************************)
EXTENDS Naturals, Sequences, FiniteSets

\* ------------------------------------------------------------------ bounds

\* No log (mirror, fallback list, global backup) grows beyond MaxLen records.
MaxLen == 4

\* ------------------------------------------------------- data of the program

\* msg.type of HumanMessage and AIMessage.
Roles == {"human", "ai"}

\* The message texts the operations are called with.
Contents == {"x", "y"}

HumanMessage(c) == [type |-> "human", content |-> c]

AIMessage(c) == [type |-> "ai", content |-> c]

\* The records add_message is called with: same text under both roles, and
\* two texts under one role.
Msgs == {HumanMessage(c) : c \in Contents} \cup {AIMessage("x")}

\* The value of arg when the operation takes no record.
NoMsg == [type |-> "none", content |-> ""]

\* self.session_id, the one session every row read or written belongs to.
session_id == "temp_session"

\* current_messages[-2:], the trailing window add_message checks.
DupWindow == 2

\* ---------------------------------------------------------- pure functions

\* s[-n:] of Python: the last n entries of s (all of s when it is shorter).
LastN(s, n) == SubSeq(s, IF Len(s) > n THEN Len(s) - n + 1 ELSE 1, Len(s))

Range(s) == {s[i] : i \in 1..Len(s)}

\* msg.type == message.type and msg.content == message.content
SameMessage(a, b) == a.type = b.type /\ a.content = b.content

\* any(msg.type == message.type and msg.content == message.content
\*     for msg in current_messages[-2:])
IsDuplicate(cur, m) ==
    LET w == LastN(cur, DupWindow)
    IN  \E i \in 1..Len(w) : SameMessage(w[i], m)

\* messages_to_dict: each message becomes {"type": ..., "data": {...}}.
message_to_dict(m) == [type |-> m.type, data |-> [content |-> m.content, type |-> m.type]]

messages_to_dict(ms) == [i \in 1..Len(ms) |-> message_to_dict(ms[i])]

\* messages_from_dict: the class is chosen by "type", its fields come from "data".
message_from_dict(d) ==
    IF d.type = "human" THEN HumanMessage(d.data.content) ELSE AIMessage(d.data.content)

messages_from_dict(ds) == [i \in 1..Len(ds) |-> message_from_dict(ds[i])]

\* json.dumps / json.loads: the text of a list of dicts, and the list read back.
\* A text that json.dumps wrote parses; json.loads (or messages_from_dict after
\* it) raises on any other text.
json_dumps(ds) == [text |-> ds, valid |-> TRUE]

json_loads(j) == j.text

\* json.loads(j) and messages_from_dict of its result return without raising.
JsonParses(j) == j.valid

\* A text in the messages column that was not written by json.dumps of a
\* messages_to_dict list.
Malformed == [text |-> << >>, valid |-> FALSE]

\* A JSON text is a non-empty string ("[]" at least), so it is truthy in Python.
Truthy(j) == TRUE

\* ------------------------------------------------------------ remote table

\* The rows of chat_memory whose session_id is self.session_id, in table order.
Row(j) == [session_id |-> session_id, messages |-> j]

\* .update({"messages": messages_json}).eq("session_id", ...): every matching row.
Update(t, j) == [i \in 1..Len(t) |-> Row(j)]

\* .insert({"session_id": ..., "messages": messages_json})
Insert(t, j) == Append(t, Row(j))

\* .delete().eq("session_id", ...)
Delete(t) == << >>

\* The log a row holds.
RowLog(r) == messages_from_dict(json_loads(r.messages))

\* Outcome of a remote call, as recorded in net.
Out(b) == IF b THEN "ok" ELSE "fail"

NoNet == [read |-> "none", select |-> "none", write |-> "none", delete |-> "none"]

\* Some remote call of the operation raised.
AnyFail(n) == "fail" \in {n.read, n.select, n.write, n.delete}

\* The connection state after an operation whose remote calls ended as n.
Degrade(c, n) == IF AnyFail(n) THEN "DEGRADED" ELSE c

\* The operations whose remote calls all sit inside a try whose except catches
\* Exception and does not raise again.
Guarded == {"get_messages", "add_message", "clear", "clean_duplicates_in_memory"}

\* An operation that lets the failure of its delete through to its caller.
RaisesFromClear(o, n) == AnyFail(n) /\ o = "clear"

\* Operation o, whose remote calls ended as n, raises to its caller.
Raises(o, n) == AnyFail(n) /\ o \notin Guarded

\* ------------------------------------------------------------------- state

VARIABLES
    store,             \* which history get_memory() built: "supabase" or "fallback"
    local_messages,    \* SupabaseChatMessageHistory.local_messages, the mirror
    messages,          \* FallbackChatMessageHistory.messages
    LOCAL_MESSAGES,    \* the module global backup list
    table,             \* the rows of the remote table for session_id
    op,                \* the operation that ran last
    arg,               \* the record it was called with (NoMsg when none)
    ret,               \* what it returned
    raised,            \* whether it raised to its caller
    net,               \* the outcome of each remote call it made
    current_messages,  \* add_message: the log its get_messages() returned
    skipped,           \* add_message: it took the duplicate return
    wrote,             \* add_message: "update", "insert" or "none"
    accepted,          \* the records add_message stored, in call order, while
                       \* only add_message and get_messages have run
    onlyAdds,          \* only add_message and get_messages have run so far
    unsaved,           \* records stored by an add_message whose remote write
                       \* failed, since the last clear() in this process
    conn,              \* the connection state of spec 4.3: "DEGRADED" once the
                       \* construction, its probe or a remote call of this
                       \* process has failed, "CONNECTED" until then
    req                \* the chat request being served: where chat_endpoint
                       \* is, its query, its result and the local variables of
                       \* add_messages_manually; or, when two requests run at
                       \* once, where each of them is and its local variables

state == <<store, local_messages, messages, LOCAL_MESSAGES, table>>

call == <<op, arg, ret, raised, net, current_messages, skipped, wrote>>

ghost == <<accepted, onlyAdds, unsaved>>

vars == <<state, call, ghost, conn, req>>

\* No chat request is being served and none has returned yet.
NoReq ==
    [pc |-> "idle", query |-> "", result |-> "", returned |-> "none",
     agent |-> "none", held |-> << >>,
     current_messages |-> << >>, alias |-> FALSE]

\* The log of the history the facade holds (what memory.chat_memory.messages is
\* read from): the mirror of the remote-backed store, the list of the fallback.
StoreLog == IF store = "supabase" THEN local_messages ELSE messages

\* ------------------------------------------------------------ get_messages

\* get_messages that forgets to refresh the mirror.
GetMessagesResultNoRefresh(lm, t, readOk) ==
    IF readOk /\ Len(t) > 0 /\ Truthy(t[1].messages) /\ JsonParses(t[1].messages)
    THEN [ret |-> RowLog(t[1]), local_messages |-> lm]
    ELSE [ret |-> lm, local_messages |-> lm]

\* get_messages that returns nothing when the remote read fails.
GetMessagesResultDropOnFail(lm, t, readOk) ==
    IF readOk /\ Len(t) > 0 /\ Truthy(t[1].messages) /\ JsonParses(t[1].messages)
    THEN [ret |-> RowLog(t[1]), local_messages |-> RowLog(t[1])]
    ELSE IF readOk THEN [ret |-> lm, local_messages |-> lm]
    ELSE [ret |-> << >>, local_messages |-> << >>]

\* SupabaseChatMessageHistory.get_messages: the value returned and the mirror
\* afterwards, from the mirror lm, the rows t and the outcome of the select.
GetMessagesResult(lm, t, readOk) ==
    IF readOk
    THEN IF Len(t) > 0 /\ Truthy(t[1].messages)
         THEN IF JsonParses(t[1].messages)
              THEN LET ms == RowLog(t[1])
                   IN  [ret |-> ms, local_messages |-> ms]
              ELSE [ret |-> lm, local_messages |-> lm]
         ELSE [ret |-> lm, local_messages |-> lm]
    ELSE [ret |-> lm, local_messages |-> lm]

\* ------------------------------------------------------------- add_message

\* An upsert that inserts without looking for an existing row.
UpsertAlwaysInsert(t, j, selectOk, writeOk) ==
    IF selectOk /\ writeOk THEN Insert(t, j) ELSE t

\* An upsert that takes a failed select of the id for "no row" and inserts.
UpsertInsertUnlessSeen(t, j, selectOk, writeOk) ==
    IF ~writeOk THEN t
    ELSE IF selectOk /\ Len(t) > 0 THEN Update(t, j) ELSE Insert(t, j)

\* The rows after the upsert of add_message: unchanged when the select of the id
\* or the write raises; an update when a row exists, an insert when none does.
Upsert(t, j, selectOk, writeOk) ==
    IF ~selectOk THEN t
    ELSE IF Len(t) > 0
         THEN (IF writeOk THEN Update(t, j) ELSE t)
         ELSE (IF writeOk THEN Insert(t, j) ELSE t)

\* Which write the upsert made.
UpsertKind(t, selectOk, writeOk) ==
    IF ~selectOk \/ ~writeOk THEN "none"
    ELSE IF Len(t) > 0 THEN "update" ELSE "insert"

\* The global backup after add_message stored m: LOCAL_MESSAGES has its own
\* duplicate check on its own last entries.
BackupAppend(LM, m) == IF ~IsDuplicate(LM, m) THEN Append(LM, m) ELSE LM

\* add_message that touches the global backup before the duplicate return.
AddMessageResultBackupFirst(lm, LM, t, m, n) ==
    LET g   == GetMessagesResult(lm, t, n.read)
        cur == g.ret
    IN  IF IsDuplicate(cur, m)
        THEN [local_messages |-> g.local_messages, LOCAL_MESSAGES |-> Append(LM, m),
              table |-> t,
              current_messages |-> cur, skipped |-> TRUE, wrote |-> "none",
              net |-> [NoNet EXCEPT !.read = Out(n.read)]]
        ELSE LET lm2 == Append(g.local_messages, m)
                 j   == json_dumps(messages_to_dict(lm2))
             IN  [local_messages |-> lm2,
                  LOCAL_MESSAGES |-> Append(LM, m),
                  table |-> Upsert(t, j, n.select, n.write),
                  current_messages |-> cur, skipped |-> FALSE,
                  wrote |-> UpsertKind(t, n.select, n.write),
                  net |-> [NoNet EXCEPT !.read = Out(n.read),
                                        !.select = Out(n.select),
                                        !.write = IF n.select THEN Out(n.write) ELSE "none"]]

\* SupabaseChatMessageHistory.add_message(m) from mirror lm, global backup LM and
\* rows t, with n the outcomes of its remote calls (read: the select of
\* get_messages, select: the select of the id, write: the update or insert).
AddMessageResult(lm, LM, t, m, n) ==
    LET g   == GetMessagesResult(lm, t, n.read)
        cur == g.ret
    IN  IF IsDuplicate(cur, m)
        THEN [local_messages |-> g.local_messages, LOCAL_MESSAGES |-> LM, table |-> t,
              current_messages |-> cur, skipped |-> TRUE, wrote |-> "none",
              net |-> [NoNet EXCEPT !.read = Out(n.read)]]
        ELSE LET lm2 == Append(g.local_messages, m)
                 j   == json_dumps(messages_to_dict(lm2))
             IN  [local_messages |-> lm2,
                  LOCAL_MESSAGES |-> BackupAppend(LM, m),
                  table |-> Upsert(t, j, n.select, n.write),
                  current_messages |-> cur, skipped |-> FALSE,
                  wrote |-> UpsertKind(t, n.select, n.write),
                  net |-> [NoNet EXCEPT !.read = Out(n.read),
                                        !.select = Out(n.select),
                                        !.write = IF n.select THEN Out(n.write) ELSE "none"]]

\* The outcomes of the three remote calls of add_message.
AddOutcomes == [read : BOOLEAN, select : BOOLEAN, write : BOOLEAN]

\* ------------------------------------------------------------------- clear

\* clear() that keeps the mirror when the remote delete fails.
ClearResultKeepOnFail(lm, t, deleteOk) ==
    [local_messages |-> IF deleteOk THEN << >> ELSE lm,
     LOCAL_MESSAGES |-> << >>,
     table |-> IF deleteOk THEN Delete(t) ELSE t]

\* SupabaseChatMessageHistory.clear(): the delete is tried, its failure is
\* caught, the mirror and the global backup are emptied in either case.
ClearResult(lm, t, deleteOk) ==
    [local_messages |-> << >>,
     LOCAL_MESSAGES |-> << >>,
     table |-> IF deleteOk THEN Delete(t) ELSE t]

\* ----------------------------------------------- clean_duplicates_in_memory

\* A message_id that leaves the type out.
message_idContentOnly(m) == <<m.content, m.content>>

\* message_id = (msg.type, msg.content)
message_id(m) == <<m.type, m.content>>

\* The loop over messages: unique_messages after the first i entries.
RECURSIVE UniqueUpTo(_, _)
UniqueUpTo(ms, i) ==
    IF i = 0 THEN << >>
    ELSE LET u    == UniqueUpTo(ms, i - 1)
             seen == {message_id(u[k]) : k \in 1..Len(u)}
         IN  IF message_id(ms[i]) \notin seen THEN Append(u, ms[i]) ELSE u

\* A pass that keeps the first record only.
unique_messagesFirstOnly(ms) == IF ms = << >> THEN << >> ELSE <<ms[1]>>

\* unique_messages when the loop has ended.
unique_messages(ms) == UniqueUpTo(ms, Len(ms))

\* clean_duplicates_in_memory on the remote-backed store, with the outcomes of
\* its read (get_messages) and of its update.
CleanResult(lm, LM, t, readOk, writeOk) ==
    LET g  == GetMessagesResult(lm, t, readOk)
        ms == g.ret
        u  == unique_messages(ms)
    IN  IF Len(ms) = 0
        THEN [local_messages |-> g.local_messages, LOCAL_MESSAGES |-> LM, table |-> t,
              ret |-> FALSE, net |-> [NoNet EXCEPT !.read = Out(readOk)]]
        ELSE IF Len(u) < Len(ms)
        THEN [local_messages |-> u, LOCAL_MESSAGES |-> u,
              table |-> IF writeOk THEN Update(t, json_dumps(messages_to_dict(u))) ELSE t,
              ret |-> TRUE,
              net |-> [NoNet EXCEPT !.read = Out(readOk), !.write = Out(writeOk)]]
        ELSE [local_messages |-> g.local_messages, LOCAL_MESSAGES |-> LM, table |-> t,
              ret |-> FALSE, net |-> [NoNet EXCEPT !.read = Out(readOk)]]

\* ------------------------------------------------------------ initial state

\* The state after the module is loaded for the first time: get_memory() built
\* one of the two histories (the remote-backed one with its probe answered or
\* failed), the lists are empty, the table holds no row.
Init ==
    /\ store \in {"supabase", "fallback"}
    /\ local_messages = << >>
    /\ messages = << >>
    /\ LOCAL_MESSAGES = << >>
    /\ table = << >>
    /\ op = "init"
    /\ arg = NoMsg
    /\ ret = << >>
    /\ raised = FALSE
    /\ net = NoNet
    /\ current_messages = << >>
    /\ skipped = FALSE
    /\ wrote = "none"
    /\ accepted = << >>
    /\ onlyAdds = TRUE
    /\ unsaved = {}
    /\ conn \in (IF store = "supabase" THEN {"CONNECTED", "DEGRADED"} ELSE {"DEGRADED"})
    /\ req = NoReq

\* ----------------------------------------------------------------- actions

\* get_memory() in a new process: create_client and the constructor either
\* succeed (the remote-backed history, whatever the probe of
\* _ensure_table_exists answered: its failure is caught) or raise (the
\* fallback). The lists of the process start empty; the table is what it was.
get_memory ==
    /\ \E clientOk \in BOOLEAN, probeOk \in BOOLEAN :
         /\ store' = IF clientOk THEN "supabase" ELSE "fallback"
         /\ conn' = IF clientOk /\ probeOk THEN "CONNECTED" ELSE "DEGRADED"
    /\ local_messages' = << >>
    /\ messages' = << >>
    /\ LOCAL_MESSAGES' = << >>
    /\ op' = "get_memory"
    /\ UNCHANGED req
    /\ arg' = NoMsg
    /\ ret' = << >>
    /\ raised' = FALSE
    /\ net' = NoNet
    /\ current_messages' = << >>
    /\ skipped' = FALSE
    /\ wrote' = "none"
    /\ accepted' = << >>
    /\ onlyAdds' = FALSE
    /\ unsaved' = {}
    /\ UNCHANGED table

\* SupabaseChatMessageHistory.get_messages()
get_messages ==
    /\ store = "supabase"
    /\ \E readOk \in BOOLEAN :
         LET g == GetMessagesResult(local_messages, table, readOk)
         IN  /\ local_messages' = g.local_messages
             /\ ret' = g.ret
             /\ net' = [NoNet EXCEPT !.read = Out(readOk)]
    /\ op' = "get_messages"
    /\ UNCHANGED req
    /\ conn' = Degrade(conn, net')
    /\ arg' = NoMsg
    /\ raised' = Raises("get_messages", net')
    /\ current_messages' = << >>
    /\ skipped' = FALSE
    /\ wrote' = "none"
    /\ UNCHANGED <<store, messages, LOCAL_MESSAGES, table, ghost>>

\* SupabaseChatMessageHistory.add_message(m)
add_message ==
    /\ store = "supabase"
    /\ \E m \in Msgs, n \in AddOutcomes :
         LET r == AddMessageResult(local_messages, LOCAL_MESSAGES, table, m, n)
         IN  /\ Len(r.local_messages) <= MaxLen
             /\ Len(r.LOCAL_MESSAGES) <= MaxLen
             /\ (onlyAdds /\ ~r.skipped) => Len(accepted) < MaxLen
             /\ local_messages' = r.local_messages
             /\ LOCAL_MESSAGES' = r.LOCAL_MESSAGES
             /\ table' = r.table
             /\ current_messages' = r.current_messages
             /\ skipped' = r.skipped
             /\ wrote' = r.wrote
             /\ net' = r.net
             /\ arg' = m
             /\ accepted' = IF onlyAdds /\ ~r.skipped THEN Append(accepted, m) ELSE accepted
             /\ unsaved' = IF ~r.skipped /\ r.wrote = "none" THEN unsaved \cup {m} ELSE unsaved
    /\ op' = "add_message"
    /\ UNCHANGED req
    /\ conn' = Degrade(conn, net')
    /\ ret' = << >>
    /\ raised' = Raises("add_message", net')
    /\ UNCHANGED <<store, messages, onlyAdds>>

\* SupabaseChatMessageHistory.clear()
clear ==
    /\ store = "supabase"
    /\ \E deleteOk \in BOOLEAN :
         LET r == ClearResult(local_messages, table, deleteOk)
         IN  /\ local_messages' = r.local_messages
             /\ LOCAL_MESSAGES' = r.LOCAL_MESSAGES
             /\ table' = r.table
             /\ net' = [NoNet EXCEPT !.delete = Out(deleteOk)]
    /\ op' = "clear"
    /\ UNCHANGED req
    /\ conn' = Degrade(conn, net')
    /\ arg' = NoMsg
    /\ ret' = << >>
    /\ raised' = Raises("clear", net')
    /\ current_messages' = << >>
    /\ skipped' = FALSE
    /\ wrote' = "none"
    /\ accepted' = << >>
    /\ onlyAdds' = FALSE
    /\ unsaved' = {}
    /\ UNCHANGED <<store, messages>>

\* clean_duplicates_in_memory(memory) on the remote-backed history
clean_duplicates_in_memory ==
    /\ store = "supabase"
    /\ \E readOk \in BOOLEAN, writeOk \in BOOLEAN :
         LET r == CleanResult(local_messages, LOCAL_MESSAGES, table, readOk, writeOk)
         IN  /\ local_messages' = r.local_messages
             /\ LOCAL_MESSAGES' = r.LOCAL_MESSAGES
             /\ table' = r.table
             /\ ret' = r.ret
             /\ net' = r.net
    /\ op' = "clean_duplicates_in_memory"
    /\ UNCHANGED req
    /\ conn' = Degrade(conn, net')
    /\ arg' = NoMsg
    /\ raised' = Raises("clean_duplicates_in_memory", net')
    /\ current_messages' = << >>
    /\ skipped' = FALSE
    /\ wrote' = "none"
    /\ accepted' = << >>
    /\ onlyAdds' = FALSE
    /\ UNCHANGED <<store, messages, unsaved>>

\* FallbackChatMessageHistory.add_message(m): appended to the list and to the
\* global backup, with no duplicate check.
Fallback_add_message ==
    /\ store = "fallback"
    /\ Len(messages) < MaxLen
    /\ Len(LOCAL_MESSAGES) < MaxLen
    /\ \E m \in Msgs :
         /\ messages' = Append(messages, m)
         /\ LOCAL_MESSAGES' = Append(LOCAL_MESSAGES, m)
         /\ arg' = m
         /\ accepted' = IF onlyAdds THEN Append(accepted, m) ELSE accepted
    /\ op' = "add_message"
    /\ UNCHANGED req
    /\ UNCHANGED conn
    /\ ret' = << >>
    /\ raised' = FALSE
    /\ net' = NoNet
    /\ current_messages' = << >>
    /\ skipped' = FALSE
    /\ wrote' = "none"
    /\ UNCHANGED <<store, local_messages, table, onlyAdds, unsaved>>

\* FallbackChatMessageHistory.clear()
Fallback_clear ==
    /\ store = "fallback"
    /\ messages' = << >>
    /\ LOCAL_MESSAGES' = << >>
    /\ op' = "clear"
    /\ UNCHANGED req
    /\ UNCHANGED conn
    /\ arg' = NoMsg
    /\ ret' = << >>
    /\ raised' = FALSE
    /\ net' = NoNet
    /\ current_messages' = << >>
    /\ skipped' = FALSE
    /\ wrote' = "none"
    /\ accepted' = << >>
    /\ onlyAdds' = FALSE
    /\ unsaved' = {}
    /\ UNCHANGED <<store, local_messages, table>>

\* memory.chat_memory.get_messages() on the fallback: the class defines
\* __init__, add_message and clear only, so the call raises AttributeError.
Fallback_get_messages ==
    /\ store = "fallback"
    /\ op' = "get_messages"
    /\ UNCHANGED req
    /\ UNCHANGED conn
    /\ arg' = NoMsg
    /\ ret' = << >>
    /\ raised' = TRUE
    /\ net' = NoNet
    /\ current_messages' = << >>
    /\ skipped' = FALSE
    /\ wrote' = "none"
    /\ UNCHANGED <<state, ghost>>

\* clean_duplicates_in_memory(memory) on the fallback: its get_messages() call
\* raises, the outer except returns False.
Fallback_clean_duplicates_in_memory ==
    /\ store = "fallback"
    /\ op' = "clean_duplicates_in_memory"
    /\ UNCHANGED req
    /\ UNCHANGED conn
    /\ arg' = NoMsg
    /\ ret' = FALSE
    /\ raised' = FALSE
    /\ net' = NoNet
    /\ current_messages' = << >>
    /\ skipped' = FALSE
    /\ wrote' = "none"
    /\ accepted' = << >>
    /\ onlyAdds' = FALSE
    /\ UNCHANGED <<state, unsaved>>

Next ==
    \/ get_memory
    \/ get_messages
    \/ add_message
    \/ clear
    \/ clean_duplicates_in_memory
    \/ Fallback_add_message
    \/ Fallback_clear
    \/ Fallback_get_messages
    \/ Fallback_clean_duplicates_in_memory

Spec == Init /\ [][Next]_vars

\* ------------------------------------------------------------------ claims

\* The remote calls of the last add_message all succeeded.
AllOk(n) == n.read = "ok" /\ n.select = "ok" /\ n.write = "ok"

\* The record m equals one of the last DupWindow entries of the log cur.
InTrailingWindow(cur, m) ==
    \E i \in 1..Len(cur) : i + DupWindow > Len(cur) /\ cur[i] = m

\* No entry of s equals one of the DupWindow entries before it.
WindowFree(s) ==
    \A i \in 1..Len(s) : \A k \in 1..DupWindow : i > k => s[i] # s[i - k]

\* C1: while only add_message and get_messages have run on the remote-backed
\* store, get_messages() returns exactly the records add_message did not
\* suppress as duplicates, in call order, whatever remote calls failed.
C1_AddsReturnedInOrder ==
    (store = "supabase" /\ op = "get_messages" /\ onlyAdds) => ret = accepted

\* C2: a record stored by an add_message whose remote write failed is in the
\* result of every later get_messages() of the process, until clear().
C2_FailedWriteNotLost ==
    (store = "supabase" /\ op = "get_messages") => unsaved \subseteq Range(ret)

\* C3: the get_messages() that follows a clear() returns the empty sequence,
\* whether the remote delete succeeded or failed. (A non-empty result needs a
\* row that survived the clear, so the store held records when clear() ran.)
C3_ClearThenGetEmpty ==
    [][(store = "supabase" /\ op = "clear" /\ op' = "get_messages") => ret' = << >>]_vars

\* C4 as stated: when the remote read succeeds get_messages() returns the log
\* of the remote row, the empty sequence when there is no row, and the mirror
\* equals the returned log.
C4_RemoteAuthoritativeAsStated ==
    (store = "supabase" /\ op = "get_messages" /\ net.read = "ok")
        => /\ ret = (IF table = << >> THEN << >> ELSE RowLog(table[1]))
           /\ local_messages = ret

\* C4 amended: when the remote read succeeds and the remote holds a row,
\* get_messages() returns exactly the log of that row and the mirror equals it
\* afterwards; when the remote holds no row it returns the mirror, unchanged.
C4_RemoteAuthoritative ==
    [][(store' = "supabase" /\ op' = "get_messages" /\ net'.read = "ok")
          => IF table # << >>
             THEN ret' = RowLog(table[1]) /\ local_messages' = ret'
             ELSE ret' = local_messages /\ local_messages' = local_messages]_vars

\* A successful read found no row and returned a non-empty mirror.
C4_Witness ==
    /\ store = "supabase" /\ op = "get_messages" /\ net.read = "ok"
    /\ table = << >> /\ Len(ret) > 0

\* C5: when the remote read fails get_messages() returns the mirror, leaves the
\* mirror and the remote rows as they were, and raises nothing.
C5_ReadFailureServesMirror ==
    [][(store' = "supabase" /\ op' = "get_messages" /\ net'.read = "fail")
          => /\ ret' = local_messages
             /\ local_messages' = local_messages
             /\ table' = table
             /\ ~raised']_vars

\* A failed read returned a non-empty mirror that differs from the remote row.
C5_Witness ==
    /\ store = "supabase" /\ op = "get_messages" /\ net.read = "fail"
    /\ Len(ret) > 0 /\ table # << >> /\ RowLog(table[1]) # ret

\* C6 as stated: add_message of a record found in the last 2 entries of the
\* current log leaves mirror, remote rows and global backup as they were.
C6_DuplicateIsNoOpAsStated ==
    [][(store' = "supabase" /\ op' = "add_message"
          /\ InTrailingWindow(current_messages', arg'))
          => /\ local_messages' = local_messages
             /\ table' = table
             /\ LOCAL_MESSAGES' = LOCAL_MESSAGES
             /\ ~raised']_vars

\* C6 amended: add_message of a record found in the last 2 entries of the log
\* its get_messages() returned leaves the remote rows and the global backup as
\* they were and raises nothing; the mirror is left equal to that returned log,
\* which is the mirror as it was when the read failed or found no row.
C6_DuplicateIsNoOp ==
    [][(store' = "supabase" /\ op' = "add_message"
          /\ InTrailingWindow(current_messages', arg'))
          => /\ skipped'
             /\ table' = table
             /\ LOCAL_MESSAGES' = LOCAL_MESSAGES
             /\ ~raised'
             /\ local_messages' = current_messages'
             /\ (net'.read = "fail" \/ table = << >>) => local_messages' = local_messages]_vars

\* A duplicate add_message returned early on a store with a row and a backup.
C6_Witness ==
    /\ store = "supabase" /\ op = "add_message" /\ skipped
    /\ InTrailingWindow(current_messages, arg)
    /\ table # << >> /\ LOCAL_MESSAGES # << >> /\ net.read = "ok"

\* C7: the second of two add_message calls in a row with the same record
\* stores nothing, in the remote-backed store and in the fallback.
C7_SecondAddStoresNothing ==
    [][(op = "add_message" /\ op' = "add_message" /\ arg' = arg)
          => StoreLog' = StoreLog /\ table' = table]_vars

\* C8: in every reachable state no entry of the history log (the mirror or the
\* fallback list, and every remote row) equals the entry before it, nor any
\* entry of the trailing window it was checked against.
C8_NoDuplicateInWindow ==
    /\ WindowFree(StoreLog)
    /\ \A i \in 1..Len(table) : WindowFree(RowLog(table[i]))

\* C9: after add_message of a non-duplicate record whose remote calls all
\* succeeded, the mirror is the log get_messages() returned followed by the
\* record, the one remote row holds that sequence, and the row was updated
\* when one existed and inserted when none did.
C9_AddStoresAndUpserts ==
    [][(store' = "supabase" /\ op' = "add_message" /\ ~skipped' /\ AllOk(net'))
          => /\ local_messages' = Append(current_messages', arg')
             /\ Len(table') = 1
             /\ RowLog(table'[1]) = local_messages'
             /\ table # << >> => (wrote' = "update" /\ Len(table) = 1)
             /\ table = << >> => wrote' = "insert"]_vars

\* A non-duplicate add_message with every call succeeding updated a row.
C9_Witness ==
    /\ store = "supabase" /\ op = "add_message" /\ ~skipped /\ AllOk(net)
    /\ wrote = "update" /\ Len(local_messages) >= 2

\* C10: clear() leaves the mirror, the fallback list and the global backup
\* empty and raises nothing, whether the remote delete succeeded or failed;
\* after a successful delete the remote holds no row for the session.
C10_ClearEmpties ==
    op = "clear"
        => /\ StoreLog = << >>
           /\ local_messages = << >>
           /\ LOCAL_MESSAGES = << >>
           /\ ~raised
           /\ net.delete = "ok" => table = << >>

\* clear() ran with a failing delete and left the remote row in place.
C10_Witness ==
    /\ store = "supabase" /\ op = "clear" /\ net.delete = "fail" /\ table # << >>

\* C11: on the store get_memory() builds when the remote backend cannot be
\* used at construction (the fallback), get_messages(), add_message() and
\* clear() complete without raising and get_messages() returns the records.
C11_FallbackServesLog ==
    store = "fallback" => (~raised /\ (op = "get_messages" => ret = messages))

\* The operations on the history the facade serves.
StoreOps == {"get_messages", "add_message", "clear"}

\* C12: when building the remote-backed store or its connectivity probe
\* failed, the facade holds the in-process-only store and the operation that
\* follows makes no remote call.
C12_FailedConstructionIsLocalOnly ==
    [][(op \in {"init", "get_memory"} /\ conn = "DEGRADED" /\ op' \in StoreOps)
          => (store = "fallback" /\ net' = NoNet)]_vars

\* C13: once a remote call has failed the store stays DEGRADED: the
\* get_messages, add_message or clear after the failing operation makes no
\* remote call and is served from the mirror.
C13_DegradedStaysLocal ==
    [][(conn = "DEGRADED" /\ AnyFail(net) /\ op' \in StoreOps)
          => (conn' = "DEGRADED" /\ net' = NoNet
              /\ (op' = "get_messages" /\ store = "supabase" => ret' = local_messages))]_vars

\* ------------------------------------------- the deduplication pass alone

\* Every sequence of at most n records of S.
SeqsUpTo(S, n) == UNION {[1..k -> S] : k \in 0..n}

\* The messages the pass is given: any sequence of records, held in
\* current_messages; the rest of the state is as after construction.
InitDedup ==
    /\ store = "supabase"
    /\ local_messages = << >>
    /\ messages = << >>
    /\ LOCAL_MESSAGES = << >>
    /\ table = << >>
    /\ op = "init"
    /\ arg = NoMsg
    /\ ret = << >>
    /\ raised = FALSE
    /\ net = NoNet
    /\ current_messages \in SeqsUpTo(Msgs, MaxLen)
    /\ skipped = FALSE
    /\ wrote = "none"
    /\ accepted = << >>
    /\ onlyAdds = FALSE
    /\ unsaved = {}
    /\ conn = "CONNECTED"
    /\ req = NoReq

\* The loop of clean_duplicates_in_memory over messages, giving unique_messages.
unique_pass ==
    /\ op = "init"
    /\ op' = "unique_messages"
    /\ UNCHANGED req
    /\ ret' = unique_messages(current_messages)
    /\ UNCHANGED <<state, arg, raised, net, current_messages, skipped, wrote, ghost, conn>>

NextDedup == unique_pass

SpecDedup == InitDedup /\ [][NextDedup]_vars

\* The place of the first occurrence of m in s.
FirstIndex(s, m) == CHOOSE i \in 1..Len(s) : s[i] = m /\ \A k \in 1..(i - 1) : s[k] # m

\* C14: the deduplication pass maps any sequence of records to the sequence of
\* the first occurrences of its distinct (role, content) pairs, in the order
\* in which they first occur.
C14_KeepsFirstOccurrences ==
    op = "unique_messages"
        => /\ Range(ret) = Range(current_messages)
           /\ \A i \in 1..Len(ret) : \A j \in 1..Len(ret) :
                  i < j => /\ ret[i] # ret[j]
                           /\ FirstIndex(current_messages, ret[i])
                                < FirstIndex(current_messages, ret[j])

\* The pass dropped a repeated record and kept at least two distinct ones.
C14_Witness ==
    /\ op = "unique_messages"
    /\ Len(ret) < Len(current_messages)
    /\ Len(ret) >= 2

\* C15: a clean_duplicates_in_memory that directly follows another one removes
\* nothing: it returns False and leaves the mirror and the remote rows as the
\* first run left them.
C15_CleanIsIdempotent ==
    [][(store = "supabase" /\ op = "clean_duplicates_in_memory"
          /\ op' = "clean_duplicates_in_memory")
          => (ret' = FALSE /\ local_messages' = local_messages /\ table' = table)]_vars

\* ------------------------------------------- a row the program did not write

\* The messages column of the session's rows is set, outside this process, to
\* a text that is not a serialized log.
corrupt_row ==
    /\ store = "supabase"
    /\ table # << >>
    /\ table[1].messages # Malformed
    /\ table' = Update(table, Malformed)
    /\ op' = "corrupt_row"
    /\ UNCHANGED req
    /\ arg' = NoMsg
    /\ ret' = << >>
    /\ raised' = FALSE
    /\ net' = NoNet
    /\ current_messages' = << >>
    /\ skipped' = FALSE
    /\ wrote' = "none"
    /\ accepted' = << >>
    /\ onlyAdds' = FALSE
    /\ UNCHANGED <<store, local_messages, messages, LOCAL_MESSAGES, unsaved, conn>>

InitMalformed == Init /\ store = "supabase"

NextMalformed ==
    \/ get_messages
    \/ add_message
    \/ clear
    \/ corrupt_row

SpecMalformed == InitMalformed /\ [][NextMalformed]_vars

\* C16: when the select succeeds and the row's text cannot be parsed,
\* get_messages() raises nothing and returns an empty history.
C16_MalformedRowReadsEmpty ==
    (op = "get_messages" /\ net.read = "ok" /\ table # << >>
       /\ ~JsonParses(table[1].messages))
        => (~raised /\ ret = << >>)

\* ------------------------------------------------------- a chat request
\*
\* chat_endpoint runs as a chain of calls on the history; each call is one
\* step, so that the remote store can fail or answer call by call. The
\* queries are texts of Contents: none holds a memory keyword and none is
\* empty, so the request takes the get_response path.

\* if not any(... for msg in current_messages[-4:]): the window of
\* add_messages_manually.
ManualWindow == 4

\* What a call on the history leaves when it changes nothing and returns
\* nothing.
Same ==
    [local_messages |-> local_messages, messages |-> messages,
     LOCAL_MESSAGES |-> LOCAL_MESSAGES, table |-> table,
     ret |-> << >>, raised |-> FALSE, net |-> NoNet,
     current_messages |-> << >>, skipped |-> FALSE, wrote |-> "none"]

\* get_messages() found a row and parsed it: self.local_messages is bound to
\* a new list (messages.copy()) and the list returned is another new one.
Rebinds(t, readOk) ==
    readOk /\ Len(t) > 0 /\ Truthy(t[1].messages) /\ JsonParses(t[1].messages)

\* memory.chat_memory.get_messages() on the history get_memory() built; the
\* fallback has no such method and raises AttributeError.
GetCall(readOk) ==
    IF store = "supabase"
    THEN LET g == GetMessagesResult(local_messages, table, readOk)
             n == [NoNet EXCEPT !.read = Out(readOk)]
         IN  [Same EXCEPT !.local_messages = g.local_messages, !.ret = g.ret,
                          !.net = n, !.raised = Raises("get_messages", n)]
    ELSE [Same EXCEPT !.raised = TRUE]

\* memory.chat_memory.messages, read by the agent's memory: the property of the
\* remote-backed history calls get_messages(), the fallback's is its list.
MessagesCall(readOk) ==
    IF store = "supabase" THEN GetCall(readOk) ELSE [Same EXCEPT !.ret = messages]

\* memory.chat_memory.add_message(m) on the history get_memory() built.
AddCall(m, n) ==
    IF store = "supabase"
    THEN LET r == AddMessageResult(local_messages, LOCAL_MESSAGES, table, m, n)
         IN  [Same EXCEPT !.local_messages = r.local_messages,
                          !.LOCAL_MESSAGES = r.LOCAL_MESSAGES,
                          !.table = r.table, !.net = r.net,
                          !.current_messages = r.current_messages,
                          !.skipped = r.skipped, !.wrote = r.wrote,
                          !.raised = Raises("add_message", r.net)]
    ELSE [Same EXCEPT !.messages = Append(messages, m),
                      !.LOCAL_MESSAGES = Append(LOCAL_MESSAGES, m)]

\* clean_duplicates_in_memory(memory) on the history get_memory() built.
CleanCall(readOk, writeOk) ==
    IF store = "supabase"
    THEN LET r == CleanResult(local_messages, LOCAL_MESSAGES, table, readOk, writeOk)
         IN  [Same EXCEPT !.local_messages = r.local_messages,
                          !.LOCAL_MESSAGES = r.LOCAL_MESSAGES,
                          !.table = r.table, !.ret = r.ret, !.net = r.net,
                          !.raised = Raises("clean_duplicates_in_memory", r.net)]
    ELSE [Same EXCEPT !.ret = FALSE]

\* The call o(a) of a request step ends as r. The records kept for the claims
\* about single operations are dropped while requests run.
Effect(o, a, r) ==
    /\ Len(r.local_messages) <= MaxLen
    /\ Len(r.messages) <= MaxLen
    /\ Len(r.LOCAL_MESSAGES) <= MaxLen
    /\ local_messages' = r.local_messages
    /\ messages' = r.messages
    /\ LOCAL_MESSAGES' = r.LOCAL_MESSAGES
    /\ table' = r.table
    /\ op' = o
    /\ arg' = a
    /\ ret' = r.ret
    /\ raised' = r.raised
    /\ net' = r.net
    /\ current_messages' = r.current_messages
    /\ skipped' = r.skipped
    /\ wrote' = r.wrote
    /\ conn' = Degrade(conn, r.net)
    /\ accepted' = << >>
    /\ onlyAdds' = FALSE
    /\ unsaved' = {}
    /\ UNCHANGED store

\* any(msg.type == role and msg.content == text for msg in current_messages[-4:])
InManualWindow(cur, role, text) ==
    \E i \in 1..Len(LastN(cur, ManualWindow)) :
        LastN(cur, ManualWindow)[i].type = role /\ LastN(cur, ManualWindow)[i].content = text

\* chat_endpoint(query) up to its clean_duplicates_in_memory(memory).
chat_endpoint ==
    /\ req.pc = "idle"
    /\ \E q \in Contents, readOk \in BOOLEAN, writeOk \in BOOLEAN :
         /\ Effect("clean_duplicates_in_memory", NoMsg, CleanCall(readOk, writeOk))
         /\ req' = [NoReq EXCEPT !.pc = "get_response", !.query = q]

\* get_response(query): initialize_agent_with_memory() reads the history; what
\* get_messages() raises is caught there.
initialize_agent_with_memory ==
    /\ req.pc = "get_response"
    /\ \E readOk \in BOOLEAN :
         Effect("get_messages", NoMsg, GetCall(readOk))
    /\ req' = [req EXCEPT !.pc = "agent_run", !.held = StoreLog]

\* agent_executor.run(input=query): the agent's memory loads the history, then
\* the model answers with some text, or the run raises and get_response falls
\* back to llm.invoke or to its fixed text.
agent_run ==
    /\ req.pc = "agent_run"
    /\ \E readOk \in BOOLEAN, ok \in BOOLEAN, r \in Contents :
         /\ Effect("get_messages", NoMsg, MessagesCall(readOk))
         /\ req' = IF ok
                   THEN [req EXCEPT !.pc = "save_human", !.result = r, !.agent = "ok"]
                   ELSE [req EXCEPT !.pc = "manual_get", !.result = r, !.agent = "failed"]

\* The agent's memory saves the input after a run that returned.
save_human ==
    /\ req.pc = "save_human"
    /\ \E n \in AddOutcomes :
         Effect("add_message", HumanMessage(req.query), AddCall(HumanMessage(req.query), n))
    /\ req' = [req EXCEPT !.pc = "save_ai"]

\* The agent's memory saves the output.
save_ai ==
    /\ req.pc = "save_ai"
    /\ \E n \in AddOutcomes :
         Effect("add_message", AIMessage(req.result), AddCall(AIMessage(req.result), n))
    /\ req' = [req EXCEPT !.pc = "verify"]

\* get_response: messages = memory.chat_memory.get_messages() after the run.
\* When it raises, the except of get_response answers with a text of llm.invoke
\* or with its fixed text.
verify ==
    /\ req.pc = "verify"
    /\ \E readOk \in BOOLEAN, r \in Contents :
         LET g == GetCall(readOk)
         IN  /\ Effect("get_messages", NoMsg, g)
             /\ req' = IF g.raised
                       THEN [req EXCEPT !.pc = "manual_get", !.result = r]
                       ELSE [req EXCEPT !.pc = "clean"]

\* get_response: clean_duplicates_in_memory(memory), then return response.
clean ==
    /\ req.pc = "clean"
    /\ \E readOk \in BOOLEAN, writeOk \in BOOLEAN :
         Effect("clean_duplicates_in_memory", NoMsg, CleanCall(readOk, writeOk))
    /\ req' = [req EXCEPT !.pc = "manual_get"]

\* add_messages_manually: current_messages = get_messages(). The list is the
\* mirror itself unless the read parsed a row. When the call raises, the except
\* returns False.
manual_get ==
    /\ req.pc = "manual_get"
    /\ \E readOk \in BOOLEAN :
         LET g == GetCall(readOk)
         IN  /\ Effect("get_messages", NoMsg, g)
             /\ req' = IF g.raised
                       THEN [req EXCEPT !.pc = "final_get", !.agent = "none",
                                        !.held = << >>]
                       ELSE [req EXCEPT !.pc = "manual_human", !.agent = "none",
                                        !.held = << >>,
                                        !.current_messages = g.ret,
                                        !.alias = (store = "supabase" /\ ~Rebinds(table, readOk))]

\* add_messages_manually: the human message is added unless the window of
\* current_messages holds it. An add_message that appends to the list
\* current_messages names changes current_messages too.
manual_human ==
    /\ req.pc = "manual_human"
    /\ IF InManualWindow(req.current_messages, "human", req.query)
       THEN /\ req' = [req EXCEPT !.pc = "manual_ai"]
            /\ UNCHANGED <<state, call, ghost, conn>>
       ELSE \E n \in AddOutcomes :
              LET r    == AddCall(HumanMessage(req.query), n)
                  same == req.alias /\ ~Rebinds(table, n.read)
              IN  /\ Effect("add_message", HumanMessage(req.query), r)
                  /\ req' = [req EXCEPT !.pc = "manual_ai",
                                        !.alias = same,
                                        !.current_messages =
                                            IF same THEN r.local_messages
                                            ELSE req.current_messages]

\* add_messages_manually: the ai message is added unless the window of
\* current_messages holds it; return True.
manual_ai ==
    /\ req.pc = "manual_ai"
    /\ req' = [req EXCEPT !.pc = "final_get", !.current_messages = << >>,
                          !.alias = FALSE]
    /\ IF InManualWindow(req.current_messages, "ai", req.result)
       THEN UNCHANGED <<state, call, ghost, conn>>
       ELSE \E n \in AddOutcomes :
              Effect("add_message", AIMessage(req.result), AddCall(AIMessage(req.result), n))

\* chat_endpoint: current_messages = memory.chat_memory.get_messages(), then
\* return {"response": result}; what the call raises is caught by the except of
\* chat_endpoint, which returns {"error": ...}.
final_get ==
    /\ req.pc = "final_get"
    /\ \E readOk \in BOOLEAN :
         LET g == GetCall(readOk)
         IN  /\ Effect("get_messages", NoMsg, g)
             /\ req' = [NoReq EXCEPT !.returned = IF g.raised THEN "error" ELSE "response"]

\* clear_memory between two requests.
clear_memory ==
    /\ req.pc = "idle"
    /\ (clear \/ Fallback_clear)

NextChat ==
    \/ chat_endpoint
    \/ initialize_agent_with_memory
    \/ agent_run
    \/ save_human
    \/ save_ai
    \/ verify
    \/ clean
    \/ manual_get
    \/ manual_human
    \/ manual_ai
    \/ final_get
    \/ clear_memory

SpecChat == Init /\ [][NextChat]_vars

IsPrefix(s, t) == Len(s) <= Len(t) /\ \A i \in 1..Len(s) : s[i] = t[i]

\* C17: after a failed agent invocation, the next get_messages() of the request
\* raises nothing and returns the records the history held when get_response
\* was called, in the same order, before anything added since.
C17_FailedAgentKeepsHistory ==
    [][(req.pc = "manual_get" /\ req.agent = "failed")
          => (~raised' /\ IsPrefix(req.held, ret'))]_vars

\* C19: when chat_endpoint returns {response: r} for query q, the history read
\* by its last get_messages() holds a human record with content q and an ai
\* record with content r.
C19_ResponseIsRecorded ==
    [][(req.pc = "final_get" /\ req'.returned = "response")
          => (HumanMessage(req.query) \in Range(ret')
              /\ AIMessage(req.result) \in Range(ret'))]_vars

\* No two consecutive records of s have the same role.
Alternates(s) == \A i \in 1..(Len(s) - 1) : s[i].type # s[i + 1].type

\* C20: the history alternates between human and ai records: whatever chat
\* requests ran, no two consecutive records returned by get_messages() have
\* the same role.
C20_HistoryAlternates ==
    (op = "get_messages" /\ ~raised) => Alternates(ret)

\* No (role, content) pair occurs twice in s.
NoPairTwice(s) == \A i \in 1..Len(s) : \A j \in 1..Len(s) : s[i] = s[j] => i = j

\* C21: when clean_duplicates_in_memory returns True with the remote store
\* answering its read and its update, the mirror holds no (role, content) pair
\* twice, the session has a row, every row holds the mirror's sequence, and
\* the get_messages() that follows returns that sequence.
C21_CleanResyncsRemote ==
    [][(store = "supabase" /\ op' = "clean_duplicates_in_memory" /\ ret' = TRUE
          /\ net'.read = "ok" /\ net'.write = "ok")
          => (/\ NoPairTwice(local_messages')
              /\ table' # << >>
              /\ \A i \in 1..Len(table') : RowLog(table'[i]) = local_messages'
              /\ GetMessagesResult(local_messages', table', TRUE).ret = local_messages')]_vars

\* ------------------------------------------------- two requests at once
\*
\* chat_endpoint is a coroutine and runs on the event loop; get_memory_messages,
\* clear_memory and debug_memory are plain functions, which the server runs in
\* worker threads. A call of the first kind and a call of the second kind work
\* on the same history object and the same row with no lock. Each remote call
\* is one step (what the server does and answers); what a thread does with
\* the answer is another step. No remote call fails here.

\* The longest log of the runs with two requests: one record more than MaxLen,
\* the shortest log with a duplicate that add_message lets through having four.
ConcLen == MaxLen + 1

\* The rows of a session whose log is L, as add_message left them.
RowsOf(L) == IF L = << >> THEN << >> ELSE <<Row(json_dumps(messages_to_dict(L)))>>

\* Neither thread is inside a call, and no add_message has completed yet.
NoThreads ==
    [a |-> [pc |-> "idle", message |-> NoMsg, data |-> << >>, json |-> Malformed,
            exists |-> FALSE],
     b |-> [pc |-> "idle", data |-> << >>, json |-> Malformed],
     completed |-> {}, overlapped |-> FALSE]

\* A process whose mirror, backup and row hold the same log, one that
\* add_message calls made one after the other have stored.
InitConc ==
    /\ store = "supabase"
    /\ \E L \in SeqsUpTo(Msgs, MaxLen) :
         /\ WindowFree(L)
         /\ local_messages = L
         /\ LOCAL_MESSAGES = L
         /\ table = RowsOf(L)
    /\ messages = << >>
    /\ op = "init"
    /\ arg = NoMsg
    /\ ret = << >>
    /\ raised = FALSE
    /\ net = NoNet
    /\ current_messages = << >>
    /\ skipped = FALSE
    /\ wrote = "none"
    /\ accepted = << >>
    /\ onlyAdds = FALSE
    /\ unsaved = {}
    /\ conn = "CONNECTED"
    /\ req = NoThreads

\* if existing.data: update, else: insert, with existing as the select answered.
RemoteWrite(t, j, exists) == IF exists THEN Update(t, j) ELSE Insert(t, j)

\* add_message from its get_messages() answer to messages_json: the mirror and
\* the backup afterwards and whether it took the duplicate return.
AddLocal(lm, LM, data, m) ==
    AddMessageResult(lm, LM, data, m, [read |-> TRUE, select |-> FALSE, write |-> FALSE])

\* A step of call o by one thread: what it leaves alone.
Step(o) ==
    /\ op' = o
    /\ UNCHANGED <<store, messages, arg, ret, raised, net, current_messages,
                   skipped, wrote, ghost, conn>>

\* The two calls overlap: a thread takes a step while the other is inside a call.
Overlap(other) == req.overlapped \/ other.pc # "idle"

\* add_message(m), event loop: the select of get_messages() is answered.
add_read ==
    /\ req.a.pc = "idle"
    /\ \E m \in Msgs :
         req' = [req EXCEPT !.a = [@ EXCEPT !.pc = "read", !.message = m, !.data = table],
                            !.overlapped = Overlap(req.b)]
    /\ Step("add_message")
    /\ UNCHANGED <<local_messages, LOCAL_MESSAGES, table>>

\* add_message(m): the answer refreshes the mirror, then the duplicate return,
\* or the appends and messages_json.
add_local ==
    /\ req.a.pc = "read"
    /\ LET r == AddLocal(local_messages, LOCAL_MESSAGES, req.a.data, req.a.message)
       IN  /\ Len(r.local_messages) <= ConcLen
           /\ Len(r.LOCAL_MESSAGES) <= ConcLen
           /\ local_messages' = r.local_messages
           /\ LOCAL_MESSAGES' = r.LOCAL_MESSAGES
           /\ req' = [req EXCEPT
                        !.a = IF r.skipped
                              THEN NoThreads.a
                              ELSE [@ EXCEPT !.pc = "select", !.data = << >>,
                                             !.json = json_dumps(messages_to_dict(r.local_messages))],
                        !.overlapped = Overlap(req.b)]
    /\ Step("add_message")
    /\ UNCHANGED table

\* add_message(m): the select of the id is answered.
add_select ==
    /\ req.a.pc = "select"
    /\ req' = [req EXCEPT !.a = [@ EXCEPT !.pc = "write", !.exists = (table # << >>)],
                          !.overlapped = Overlap(req.b)]
    /\ Step("add_message")
    /\ UNCHANGED <<local_messages, LOCAL_MESSAGES, table>>

\* add_message(m): the update or the insert, and the return. The record counts
\* as completed unless a clear() is under way.
add_write ==
    /\ req.a.pc = "write"
    /\ table' = RemoteWrite(table, req.a.json, req.a.exists)
    /\ req' = [req EXCEPT !.a = NoThreads.a,
                          !.completed = IF req.b.pc = "cleared" THEN @
                                        ELSE @ \cup {req.a.message},
                          !.overlapped = Overlap(req.b)]
    /\ Step("add_message")
    /\ UNCHANGED <<local_messages, LOCAL_MESSAGES>>

\* get_messages() of a worker thread (debug_memory, get_memory_messages): the
\* select is answered.
worker_read ==
    /\ req.b.pc = "idle"
    /\ \E o \in {"get", "clean"} :
         req' = [req EXCEPT !.b = [@ EXCEPT !.pc = o, !.data = table],
                            !.overlapped = Overlap(req.a)]
    /\ Step("get_messages")
    /\ UNCHANGED <<local_messages, LOCAL_MESSAGES, table>>

\* get_messages() of a worker thread: the answer refreshes the mirror.
worker_get ==
    /\ req.b.pc = "get"
    /\ local_messages' = GetMessagesResult(local_messages, req.b.data, TRUE).local_messages
    /\ req' = [req EXCEPT !.b = NoThreads.b, !.overlapped = Overlap(req.a)]
    /\ Step("get_messages")
    /\ UNCHANGED <<LOCAL_MESSAGES, table>>

\* clean_duplicates_in_memory of a worker thread (get_memory_messages), from the
\* answer of its get_messages() to the json of unique_messages.
worker_clean ==
    /\ req.b.pc = "clean"
    /\ LET r == CleanResult(local_messages, LOCAL_MESSAGES, req.b.data, TRUE, FALSE)
       IN  /\ local_messages' = r.local_messages
           /\ req' = [req EXCEPT
                        !.b = IF r.ret
                              THEN [@ EXCEPT !.pc = "update", !.data = r.local_messages,
                                             !.json = json_dumps(messages_to_dict(r.local_messages))]
                              ELSE NoThreads.b,
                        !.overlapped = Overlap(req.a)]
    /\ Step("clean_duplicates_in_memory")
    /\ UNCHANGED <<LOCAL_MESSAGES, table>>

\* clean_duplicates_in_memory: the update, LOCAL_MESSAGES = unique_messages,
\* return True.
worker_update ==
    /\ req.b.pc = "update"
    /\ table' = Update(table, req.b.json)
    /\ LOCAL_MESSAGES' = req.b.data
    /\ req' = [req EXCEPT !.b = NoThreads.b, !.overlapped = Overlap(req.a)]
    /\ Step("clean_duplicates_in_memory")
    /\ UNCHANGED local_messages

\* clear() of a worker thread (clear_memory): the delete. What was added before
\* is no longer expected.
worker_delete ==
    /\ req.b.pc = "idle"
    /\ table' = Delete(table)
    /\ req' = [req EXCEPT !.b = [@ EXCEPT !.pc = "cleared"], !.completed = {},
                          !.overlapped = Overlap(req.a)]
    /\ Step("clear")
    /\ UNCHANGED <<local_messages, LOCAL_MESSAGES>>

\* clear(): the mirror and the backup are emptied.
worker_clear ==
    /\ req.b.pc = "cleared"
    /\ local_messages' = << >>
    /\ LOCAL_MESSAGES' = << >>
    /\ req' = [req EXCEPT !.b = NoThreads.b, !.completed = {},
                          !.overlapped = Overlap(req.a)]
    /\ Step("clear")
    /\ UNCHANGED table

NextConc ==
    \/ add_read
    \/ add_local
    \/ add_select
    \/ add_write
    \/ worker_read
    \/ worker_get
    \/ worker_clean
    \/ worker_update
    \/ worker_delete
    \/ worker_clear

SpecConc == InitConc /\ [][NextConc]_vars

\* A record whose add_message completed is in neither the mirror nor a row.
LostUpdate ==
    \E m \in req.completed :
        /\ m \notin Range(local_messages)
        /\ \A i \in 1..Len(table) : m \notin Range(RowLog(table[i]))

\* C22: a record whose add_message completed without a duplicate skip is
\* missing from both the mirror and the remote log only when two calls have
\* interleaved their steps; calls that run one after the other lose nothing.
C22_LostOnlyByInterleaving ==
    (store = "supabase" /\ LostUpdate) => req.overlapped

\* An add_message and a call of a worker thread have interleaved, both have
\* returned, and a completed record is in neither the mirror nor the row.
C22_Witness ==
    /\ LostUpdate
    /\ req.overlapped
    /\ req.a.pc = "idle"
    /\ req.b.pc = "idle"

\* ------------------------------------------------- get_last_user_question

\* What get_last_user_question returns: None, or a text.
None == [none |-> TRUE, content |-> ""]

Text(c) == [none |-> FALSE, content |-> c]

\* The first human text that is not the current query.
get_last_user_questionFirst(ms, current_query) ==
    LET human_messages ==
            SelectSeq(ms, LAMBDA msg : msg.type = "human" /\ msg.content # current_query)
    IN  IF Len(human_messages) > 0 THEN Text(human_messages[1].content) ELSE None

\* get_last_user_question(messages, current_query): None for no messages, else
\* the last of the human contents that differ from current_query, None when
\* there is none.
get_last_user_question(ms, current_query) ==
    IF Len(ms) = 0 THEN None
    ELSE LET human_messages ==
                 SelectSeq(ms, LAMBDA msg : msg.type = "human" /\ msg.content # current_query)
         IN  IF Len(human_messages) > 0
             THEN Text(human_messages[Len(human_messages)].content)
             ELSE None

\* The records of both roles.
Records == {HumanMessage(c) : c \in Contents} \cup {AIMessage(c) : c \in Contents}

\* The queries: a text of the history, or the default "" of current_query.
Queries == Contents \cup {""}

\* Any history in current_messages and any query, nothing else started.
InitLast ==
    /\ store = "supabase"
    /\ local_messages = << >>
    /\ messages = << >>
    /\ LOCAL_MESSAGES = << >>
    /\ table = << >>
    /\ op = "init"
    /\ arg = NoMsg
    /\ ret = << >>
    /\ raised = FALSE
    /\ net = NoNet
    /\ current_messages \in SeqsUpTo(Records, MaxLen)
    /\ skipped = FALSE
    /\ wrote = "none"
    /\ accepted = << >>
    /\ onlyAdds = FALSE
    /\ unsaved = {}
    /\ conn = "CONNECTED"
    /\ \E q \in Queries : req = [NoReq EXCEPT !.query = q]

\* last_question = get_last_user_question(messages, query)
last_question ==
    /\ op = "init"
    /\ op' = "get_last_user_question"
    /\ ret' = get_last_user_question(current_messages, req.query)
    /\ UNCHANGED <<state, arg, raised, net, current_messages, skipped, wrote, ghost,
                   conn, req>>

NextLast == last_question

SpecLast == InitLast /\ [][NextLast]_vars

\* The places of the human records of ms whose content is not q.
OtherQuestions(ms, q) ==
    {i \in 1..Len(ms) : ms[i].type = "human" /\ ms[i].content # q}

\* C23: get_last_user_question returns the content of the most recent human
\* record whose content differs from the current query, and None when the
\* history is empty or holds no such record; what it returns is never taken
\* from an ai record.
C23_LastOtherHumanQuestion ==
    op = "get_last_user_question"
        => LET H == OtherQuestions(current_messages, req.query)
           IN  IF H = {}
               THEN ret = None
               ELSE \E i \in H : /\ \A j \in H : j <= i
                                 /\ ret = Text(current_messages[i].content)

\* A question is returned although a later human record (the current query)
\* and a later ai record follow it.
C23_Witness ==
    /\ op = "get_last_user_question"
    /\ ret # None
    /\ \E i \in OtherQuestions(current_messages, req.query) :
         /\ i + 2 <= Len(current_messages)
         /\ \E j \in (i + 1)..Len(current_messages) :
              current_messages[j].type = "human"
         /\ \E j \in (i + 1)..Len(current_messages) :
              current_messages[j].type = "ai"

\* C24: whatever calls ran one after the other and whatever remote calls
\* failed, the table holds at most one row for the session; after an
\* add_message that wrote, that one row holds the mirror's log and is the row
\* a get_messages() reads.
C24_AtMostOneRow ==
    /\ Len(table) <= 1
    /\ (store = "supabase" /\ op = "add_message" /\ wrote # "none")
         => /\ table = RowsOf(local_messages)
            /\ GetMessagesResult(local_messages, table, TRUE).ret = RowLog(table[1])

\* An add_message updated the only row after an earlier write had failed and
\* with its own read failing.
C24_Witness ==
    /\ store = "supabase"
    /\ op = "add_message"
    /\ wrote = "update"
    /\ net.read = "fail"
    /\ unsaved # {}
    /\ Len(table) = 1

====
